---- MODULE Spec2Model ----
(***************************************************************************)
(* A model of the fund NAV estimator: the valuation estimator              *)
(* (src/src/valuation.py), the fetch/parse functions of                     *)
(* src/src/data_fetcher.py and the per-fund workers of src/app.py.          *)
(*                                                                         *)
(* Conventions.                                                            *)
(*   - Python None is the empty tuple <<>>; a present optional value v is   *)
(*     the one-element tuple <<v>>.                                         *)
(*   - A float that results from arithmetic is the exact rational          *)
(*     <<numerator, denominator>> in lowest terms with denominator > 0;     *)
(*     a division by zero yields the marker <<0, 0>> (ZeroDivisionError).   *)
(*     The estimator rounds the result of each operation to the nearest     *)
(*     float of val_precision significant bits, and does not round when     *)
(*     val_precision is 0.                                                  *)
(*   - A Python dict used as a map is a TLA+ function; its key set is       *)
(*     DOMAIN.                                                              *)
(*   - A Python str that the code inspects character by character is a      *)
(*     sequence of one-character strings.                                   *)
(***************************************************************************)
EXTENDS Integers, Sequences, FiniteSets, TLC

VARIABLES
    val_holdings,   \* estimate_nav_change: argument holdings
    val_prices,     \* estimate_nav_change: argument prices
    val_result,     \* estimate_nav_change: <<>> before the call, <<returned dict>> after
    val_precision,  \* the significant bits of a float; 0 for arithmetic without rounding
    hist_days,      \* get_fund_history_nav: argument days
    hist_tod,       \* 0 when pd.Timestamp.now() falls exactly on midnight, else 1
    hist_requests,  \* the page requests submitted to the executor, in order
    hist_pending,   \* the submitted page fetches that have not completed yet
    hist_data_list, \* get_fund_history_nav: data_list
    hist_failed,    \* the pages whose fetch failed or returned nothing
    hist_received,  \* the records the page fetches returned
    hist_result,    \* the returned DataFrame (a sequence of rows) or None
    hist_pc,        \* "idle", "start", "collect", "done"
    q_stock_codes,  \* get_realtime_stock_prices: argument stock_codes
    q_unique_codes, \* get_realtime_stock_prices: unique_codes
    q_pos,          \* the offset i of chunked() at which the next batch starts
    q_requests,     \* the batches sent upstream so far, in order
    q_seen,         \* the quote lines received so far
    q_lines,        \* every line of every fetched batch, in the order read
    q_upstream,     \* which answers upstream gives in this run: "any" or "plain"
    q_results,      \* get_realtime_stock_prices: results
    q_pc,           \* "idle", "start", "loop", "done"
    key_market_id,  \* a holdings row's market_id: None, or <<int(market_id)>>
    key_stock_code, \* a holdings row's stock_code
    key_result,     \* None before the key is computed, <<sina_code>> after
    hold_fund_code, \* get_fund_holdings: argument fund_code
    hold_page,      \* the upstream answer to the jjcc request
    hold_fund_name, \* get_fund_holdings: fund_name when the call ends
    hold_holdings,  \* get_fund_holdings: holdings parsed from the table
    hold_searches,  \* the names passed to _search_etf_code, in order
    hold_found,     \* what each of those searches returned
    hold_result,    \* the returned triple (as <<triple>>) or None
    hold_pc,        \* "idle", "start", "done"
    f_code_list,    \* process_funds: argument code_list
    f_modes,        \* st.session_state["fund_valuation_mode"]: code -> mode, None if absent
    f_futures_map,  \* process_funds: futures_map, future (its submission number) -> code
    f_pending,      \* the futures as_completed has not yielded yet
    f_answers,      \* what the data sources answered to each future's worker
    f_results,      \* process_funds: results
    f_pc            \* "idle", "start", "collect", "done"

valVars == <<val_holdings, val_prices, val_result, val_precision>>

histVars == <<hist_days, hist_tod, hist_requests, hist_pending, hist_data_list,
              hist_failed, hist_received, hist_result, hist_pc>>

quoteVars == <<q_stock_codes, q_unique_codes, q_pos, q_requests, q_seen, q_lines,
               q_upstream, q_results, q_pc>>

keyVars == <<key_market_id, key_stock_code, key_result>>

holdVars == <<hold_fund_code, hold_page, hold_fund_name, hold_holdings, hold_searches,
              hold_found, hold_result, hold_pc>>

fundVars == <<f_code_list, f_modes, f_futures_map, f_pending, f_answers, f_results, f_pc>>

vars == <<valVars, histVars, quoteVars, keyVars, holdVars, fundVars>>

(***************************************************************************)
(* Values                                                                  *)
(***************************************************************************)
None == <<>>

Some(v) == <<v>>

Abs(n) == IF n < 0 THEN -n ELSE n

RECURSIVE Gcd(_, _)
Gcd(a, b) == IF b = 0 THEN a ELSE Gcd(b, a % b)

\* The rational n/d in lowest terms, d # 0.
Norm(n, d) ==
    LET g == Gcd(Abs(n), Abs(d))
        s == IF d < 0 THEN -1 ELSE 1
    IN  <<(s * n) \div g, (s * d) \div g>>

RZero == <<0, 1>>

DivZero == <<0, 0>>

RInt(n) == <<n, 1>>

RAdd(x, y) == Norm(x[1] * y[2] + y[1] * x[2], x[2] * y[2])

RScale(x, k) == Norm(x[1] * k, x[2])

\* x / k for a rational x and a number k; Python raises ZeroDivisionError on k = 0.
RDivInt(x, k) == IF k = 0 THEN DivZero ELSE Norm(x[1], x[2] * k)

\* a / d rounded to the nearest integer, a tie to the even one.
RoundHalfEven(a, d) ==
    LET q == a \div d
        r == a % d
    IN  IF 2 * r > d \/ (2 * r = d /\ q % 2 = 1) THEN q + 1 ELSE q

\* a / d = (a' / d') * (up / down) with 2^(bits-1) <= a' / d' < 2^bits.
RECURSIVE FlScale(_, _, _, _, _)
FlScale(a, d, bits, up, down) ==
    IF a >= d * 2^bits THEN FlScale(a, 2 * d, bits, 2 * up, down)
    ELSE IF a * 2 < d * 2^bits THEN FlScale(2 * a, d, bits, up, 2 * down)
    ELSE [a |-> a, d |-> d, up |-> up, down |-> down]

\* The binary float with bits significant bits that is nearest to x (round
\* to nearest, ties to even; the exponent range is not limited).
Fl(x, bits) ==
    IF x[2] = 0 \/ x[1] = 0 THEN x
    ELSE LET sc == FlScale(Abs(x[1]), x[2], bits, 1, 1)
             mant == RoundHalfEven(sc.a, sc.d)
         IN  Norm((IF x[1] < 0 THEN -1 ELSE 1) * mant * sc.up, sc.down)

\* The result of a float operation whose exact value is x.
Rnd(x) == IF val_precision = 0 THEN x ELSE Fl(x, val_precision)

\* The same for a value known to be whole once rounded.
RndInt(k) == Rnd(RInt(k))[1]

(***************************************************************************)
(* valuation.py: estimate_nav_change                                       *)
(***************************************************************************)
\* item.get('fetch_code', code)
lookup_code(item) ==
    IF item.fetch_code = None THEN item.code ELSE item.fetch_code[1]

\* prices.get(lookup_code) followed by `if price_info:`; the quote records of
\* this model always carry their three fields, so a present record is truthy.
has_price(item, prices) == lookup_code(item) \in DOMAIN prices

\* The accumulators before the loop (lines 22-24).
nav_init == [total_weighted_change |-> RZero, total_weight |-> 0, details |-> <<>>]

\* Mutant: the weight of a holding without a quote is added to total_weight.
nav_step_countsUnmatched(acc, item, prices) ==
    IF has_price(item, prices)
    THEN LET price_info == prices[lookup_code(item)]
             weighted_change == Rnd(RScale(price_info.change, item.weight))
         IN  [total_weighted_change |->
                  Rnd(RAdd(acc.total_weighted_change, weighted_change)),
              total_weight |-> RndInt(acc.total_weight + item.weight),
              details |-> Append(acc.details,
                  [code |-> item.code, name |-> price_info.name, weight |-> item.weight,
                   price |-> Some(price_info.price), change |-> Some(price_info.change),
                   contribution |-> weighted_change])]
    ELSE [acc EXCEPT !.total_weight = RndInt(acc.total_weight + item.weight),
                     !.details = Append(acc.details,
                  [code |-> item.code, name |-> item.name, weight |-> item.weight,
                   price |-> None, change |-> None, contribution |-> RZero])]

\* Mutant: the detail rows are collected in reverse order.
nav_step_prepends(acc, item, prices) ==
    IF has_price(item, prices)
    THEN LET price_info == prices[lookup_code(item)]
             weighted_change == Rnd(RScale(price_info.change, item.weight))
         IN  [total_weighted_change |->
                  Rnd(RAdd(acc.total_weighted_change, weighted_change)),
              total_weight |-> RndInt(acc.total_weight + item.weight),
              details |-> <<[code |-> item.code, name |-> price_info.name,
                   weight |-> item.weight,
                   price |-> Some(price_info.price), change |-> Some(price_info.change),
                   contribution |-> weighted_change]>> \o acc.details]
    ELSE [acc EXCEPT !.details =
                  <<[code |-> item.code, name |-> item.name, weight |-> item.weight,
                   price |-> None, change |-> None, contribution |-> RZero]>> \o acc.details]

\* Mutant: the change of a holding is added without its weight.
nav_step_unweighted(acc, item, prices) ==
    IF has_price(item, prices)
    THEN LET price_info == prices[lookup_code(item)]
             weighted_change == price_info.change
         IN  [total_weighted_change |->
                  Rnd(RAdd(acc.total_weighted_change, weighted_change)),
              total_weight |-> RndInt(acc.total_weight + item.weight),
              details |-> Append(acc.details,
                  [code |-> item.code, name |-> price_info.name, weight |-> item.weight,
                   price |-> Some(price_info.price), change |-> Some(price_info.change),
                   contribution |-> weighted_change])]
    ELSE [acc EXCEPT !.details = Append(acc.details,
                  [code |-> item.code, name |-> item.name, weight |-> item.weight,
                   price |-> None, change |-> None, contribution |-> RZero])]

\* One iteration of `for item in holdings` (lines 26-61).
nav_step(acc, item, prices) ==
    IF has_price(item, prices)
    THEN LET price_info == prices[lookup_code(item)]
             weighted_change == Rnd(RScale(price_info.change, item.weight))
         IN  [total_weighted_change |->
                  Rnd(RAdd(acc.total_weighted_change, weighted_change)),
              total_weight |-> RndInt(acc.total_weight + item.weight),
              details |-> Append(acc.details,
                  [code |-> item.code, name |-> price_info.name, weight |-> item.weight,
                   price |-> Some(price_info.price), change |-> Some(price_info.change),
                   contribution |-> weighted_change])]
    ELSE [acc EXCEPT !.details = Append(acc.details,
                  [code |-> item.code, name |-> item.name, weight |-> item.weight,
                   price |-> None, change |-> None, contribution |-> RZero])]

RECURSIVE nav_loop(_, _, _, _)
nav_loop(holdings, prices, i, acc) ==
    IF i > Len(holdings) THEN acc
    ELSE nav_loop(holdings, prices, i + 1, nav_step(acc, holdings[i], prices))

estimate_nav_change(holdings, prices) ==
    IF holdings = <<>>
    THEN [estimated_change |-> RZero, total_weight_used |-> 0, details |-> <<>>]
    ELSE LET acc == nav_loop(holdings, prices, 1, nav_init)
         IN  IF acc.total_weight = 0
             THEN [estimated_change |-> RZero, total_weight_used |-> 0,
                   details |-> acc.details]
             ELSE [estimated_change |->
                       Rnd(RDivInt(acc.total_weighted_change, acc.total_weight)),
                   total_weight_used |-> acc.total_weight,
                   details |-> acc.details]

(***************************************************************************)
(* Inputs of the valuation estimator                                       *)
(***************************************************************************)
MaxHoldings == 2

ValKeys == {"sh600519", "rt_hk00700"}

ValWeights == {-40, 0, 40, 60}

ValChanges == {<<-1, 1>>, <<2, 1>>}

ValHoldingSet ==
    [code : ValKeys, name : {"stock"}, weight : ValWeights,
     fetch_code : {None} \cup {Some(k) : k \in ValKeys}]

ValQuoteSet == [name : {"quote"}, price : {<<10, 1>>}, change : ValChanges]

SeqsUpTo(S, n) == UNION {[1..k -> S] : k \in 0..n}

ValPriceMaps == UNION {[K -> ValQuoteSet] : K \in SUBSET ValKeys}

ValInit ==
    /\ val_holdings \in SeqsUpTo(ValHoldingSet, MaxHoldings)
    /\ val_prices \in ValPriceMaps
    /\ val_result = None
    /\ val_precision = 0

\* The same call with the arithmetic of binary floats of Precision
\* significant bits (a Python float has 53); the weights and changes drawn
\* are values such a float holds exactly.
Precision == 5

FloatWeights == {0, 5, 7}

FloatChanges == {<<-7, 1>>, <<7, 1>>}

FloatHoldingSet ==
    [code : ValKeys, name : {"stock"}, weight : FloatWeights,
     fetch_code : {None} \cup {Some(k) : k \in ValKeys}]

FloatQuoteSet == [name : {"quote"}, price : {<<10, 1>>}, change : FloatChanges]

FloatInit ==
    /\ val_holdings \in SeqsUpTo(FloatHoldingSet, MaxHoldings)
    /\ val_prices \in UNION {[K -> FloatQuoteSet] : K \in SUBSET ValKeys}
    /\ val_result = None
    /\ val_precision = Precision

ValIdle ==
    /\ val_holdings = <<>>
    /\ val_prices = <<>>
    /\ val_result = None
    /\ val_precision = 0

\* A call of estimate_nav_change(holdings, prices).
EstimateNavChange ==
    /\ val_result = None
    /\ val_result' = Some(estimate_nav_change(val_holdings, val_prices))
    /\ UNCHANGED <<val_holdings, val_prices, val_precision>>
    /\ UNCHANGED <<histVars, quoteVars, keyVars, holdVars, fundVars>>

ValNext == EstimateNavChange

(***************************************************************************)
(* Claims about the valuation estimator                                    *)
(***************************************************************************)
RECURSIVE SumOver(_, _)
SumOver(S, f) ==
    IF S = {} THEN 0
    ELSE LET x == CHOOSE y \in S : TRUE IN f[x] + SumOver(S \ {x}, f)

RECURSIVE RSumOver(_, _)
RSumOver(S, f) ==
    IF S = {} THEN RZero
    ELSE LET x == CHOOSE y \in S : TRUE IN RAdd(f[x], RSumOver(S \ {x}, f))

\* The positions of the holdings whose quote key is a key of the quote map.
Matched == {i \in 1..Len(val_holdings) : lookup_code(val_holdings[i]) \in DOMAIN val_prices}

MatchedWeight == SumOver(Matched, [i \in Matched |-> val_holdings[i].weight])

MatchedWeightedChange ==
    RSumOver(Matched, [i \in Matched |->
        RScale(val_prices[lookup_code(val_holdings[i])].change, val_holdings[i].weight)])

\* C1: total_weight_used is the sum of the weights of exactly the holdings
\* whose quote key is in the quote map; estimated_change is the matched
\* weighted change sum divided by it when it is non-zero, and 0.0 with
\* total_weight_used 0 when the holdings are empty or the matched weight is
\* zero; no division by zero happens.
C1_CoverageWeightedAverage ==
    val_result # None =>
        LET r == val_result[1] IN
        /\ r.estimated_change # DivZero
        /\ r.total_weight_used = MatchedWeight
        /\ MatchedWeight # 0 =>
              r.estimated_change =
                  Norm(MatchedWeightedChange[1], MatchedWeightedChange[2] * MatchedWeight)
        /\ (val_holdings = <<>> \/ MatchedWeight = 0) =>
              r.estimated_change = RZero /\ r.total_weight_used = 0

\* A partially covered fund: one holding matched, one not, estimate 2.0 over weight 60.
C1_Witness ==
    /\ val_result # None
    /\ Len(val_holdings) = 2
    /\ Cardinality(Matched) = 1
    /\ \E i \in 1..2 : i \notin Matched /\ val_holdings[i].weight = 40
    /\ val_result[1].total_weight_used = 60
    /\ val_result[1].estimated_change = <<2, 1>>

\* C2: for non-empty holdings the details hold one row per holding in the
\* holdings' order; a holding with a quote has that quote's price and change
\* and contribution weight * change; a holding without a quote has null
\* price, null change, contribution 0.0, and its weight is not part of
\* total_weight_used.
C2_DetailRows ==
    (val_result # None /\ val_holdings # <<>>) =>
        LET r == val_result[1] IN
        /\ Len(r.details) = Len(val_holdings)
        /\ \A i \in 1..Len(val_holdings) :
              LET h == val_holdings[i]
                  d == r.details[i]
              IN  /\ d.code = h.code
                  /\ d.weight = h.weight
                  /\ IF i \in Matched
                     THEN LET q == val_prices[lookup_code(h)]
                          IN  /\ d.price = Some(q.price)
                              /\ d.change = Some(q.change)
                              /\ d.contribution = RScale(q.change, h.weight)
                     ELSE /\ d.price = None
                          /\ d.change = None
                          /\ d.contribution = RZero
        /\ r.total_weight_used =
              SumOver(1..Len(val_holdings),
                      [i \in 1..Len(val_holdings) |->
                          IF i \in Matched THEN val_holdings[i].weight ELSE 0])

\* Two different holdings, the first without a quote and the second with one.
C2_Witness ==
    /\ val_result # None
    /\ Len(val_holdings) = 2
    /\ val_holdings[1].code # val_holdings[2].code
    /\ Matched = {2}
    /\ val_holdings[1].weight = 60
    /\ val_result[1].details[1].price = None
    /\ val_result[1].details[2].price # None
    /\ val_result[1].details[2].contribution = <<-40, 1>>

\* x <= y for rationals with positive denominators.
RLe(x, y) == x[1] * y[2] <= y[1] * x[2]

RNeg(x) == <<-x[1], x[2]>>

RTimes(x, y) == Norm(x[1] * y[1], x[2] * y[2])

\* The change of the quote matched by holding i.
ChangeOf(i) == val_prices[lookup_code(val_holdings[i])].change

\* Every weight is non-negative and the matched weight is positive.
ConvexCase ==
    /\ val_result # None
    /\ \A i \in 1..Len(val_holdings) : val_holdings[i].weight >= 0
    /\ MatchedWeight > 0

\* The estimate for the matched holdings alone.
MatchedOnlyEstimate ==
    estimate_nav_change(SelectSeq(val_holdings, LAMBDA h : lookup_code(h) \in DOMAIN val_prices),
                        val_prices).estimated_change

Allowance ==
    LET n == Cardinality(Matched)
        largest == CHOOSE c \in {<<Abs(ChangeOf(i)[1]), ChangeOf(i)[2]>> : i \in Matched} :
                      \A i \in Matched : RLe(<<Abs(ChangeOf(i)[1]), ChangeOf(i)[2]>>, c)
    IN  IF val_precision = 0 THEN RZero
        ELSE RTimes(Norm(2 * n, 2^val_precision - 2 * n), largest)

PageSize == 20

\* max_pages = (days // 20) + 2
max_pages(days) == (days \div 20) + 2

\* An upstream JSON page is [kind |-> "error"] (transport failure, bad JSON),
\* [kind |-> "nodata"] (no 'Data', or a null 'Data', or no 'LSJZList') or
\* [kind |-> "list", LSJZList |-> records].
fetch_page(resp) == IF resp.kind = "list" THEN resp.LSJZList ELSE <<>>

\* Mutant: a page without records empties data_list.
extend_resetsOnEmpty(data_list, res) == IF res # <<>> THEN data_list \o res ELSE <<>>

\* Lines 55-56: if res: data_list.extend(res).
extend(data_list, res) == IF res # <<>> THEN data_list \o res ELSE data_list

\* A date string 'YYYY-MM-DD' is [ok |-> TRUE, day |-> d], d the day number
\* relative to today; a string pd.to_datetime rejects is [ok |-> FALSE, day |-> 0].
DateStr(d) == [ok |-> TRUE, day |-> d]

BadDateStr == [ok |-> FALSE, day |-> 0]

\* df.columns of pd.DataFrame(data_list): the union of the records' keys.
columns(data_list) == UNION {DOMAIN data_list[i] : i \in 1..Len(data_list)}

\* df[['FSRQ', 'DWJZ']] with pd.to_datetime / pd.to_numeric(errors='coerce'):
\* a missing cell is NaT / NaN (None here).
to_row(rec) ==
    [date |-> IF "FSRQ" \in DOMAIN rec THEN Some(rec.FSRQ.day) ELSE None,
     nav  |-> IF "DWJZ" \in DOMAIN rec THEN rec.DWJZ ELSE None]

\* pd.to_datetime raises on a string it cannot parse.
to_datetime_raises(data_list) ==
    \E i \in 1..Len(data_list) :
        "FSRQ" \in DOMAIN data_list[i] /\ ~data_list[i].FSRQ.ok

\* The order of sort_values('date'): NaT last.
date_le(a, b) ==
    \/ b.date = None
    \/ a.date # None /\ a.date[1] <= b.date[1]

RECURSIVE insert_sorted(_, _)
insert_sorted(sorted, r) ==
    IF sorted = <<>> THEN <<r>>
    ELSE LET last == sorted[Len(sorted)]
         IN  IF date_le(last, r) THEN Append(sorted, r)
             ELSE Append(insert_sorted(SubSeq(sorted, 1, Len(sorted) - 1), r), last)

\* df.sort_values('date'): rows with equal dates keep their order.
RECURSIVE sort_values(_, _)
sort_values(rows, acc) ==
    IF rows = <<>> THEN acc
    ELSE sort_values(Tail(rows), insert_sorted(acc, Head(rows)))

\* Times are counted in half days: midnight of day d is 2 * d, now is
\* 2 * 0 + tod, start_date = now - days.
start_date(days, tod) == tod - 2 * days

in_window(row, days, tod) ==
    row.date # None /\ 2 * row.date[1] >= start_date(days, tod)

\* Lines 58-80: the merge of data_list into the returned frame.
build_frame(data_list, days, tod) ==
    IF data_list = <<>> THEN None
    ELSE IF "FSRQ" \in columns(data_list) /\ "DWJZ" \in columns(data_list)
         THEN IF to_datetime_raises(data_list) THEN None
              ELSE LET rows == [i \in 1..Len(data_list) |-> to_row(data_list[i])]
                       sorted == sort_values(rows, <<>>)
                   IN  Some(SelectSeq(sorted, LAMBDA r : in_window(r, days, tod)))
         ELSE None

(***************************************************************************)
(* Inputs of the history fetcher                                           *)
(***************************************************************************)
MaxPageLen == 1

HistDays == {1, 20}

HistRecords ==
    {[FSRQ |-> DateStr(-20), DWJZ |-> Some(1)],
     [FSRQ |-> DateStr(-1), DWJZ |-> Some(1)],
     [FSRQ |-> DateStr(0), DWJZ |-> Some(1)],
     [FSRQ |-> DateStr(0), DWJZ |-> None],
     [FSRQ |-> BadDateStr, DWJZ |-> Some(1)],
     [DWJZ |-> Some(1)]}

HistResponses ==
    {[kind |-> "error"], [kind |-> "nodata"]}
    \cup {[kind |-> "list", LSJZList |-> l] : l \in SeqsUpTo(HistRecords, MaxPageLen)}

HistIdle ==
    /\ hist_days = 0
    /\ hist_tod = 0
    /\ hist_requests = <<>>
    /\ hist_pending = {}
    /\ hist_data_list = <<>>
    /\ hist_failed = {}
    /\ hist_received = {}
    /\ hist_result = None
    /\ hist_pc = "idle"

HistInit ==
    /\ hist_days \in HistDays
    /\ hist_tod \in {0, 1}
    /\ hist_requests = <<>>
    /\ hist_pending = {}
    /\ hist_data_list = <<>>
    /\ hist_failed = {}
    /\ hist_received = {}
    /\ hist_result = None
    /\ hist_pc = "start"

\* Lines 22-52: every page 1..max_pages is submitted to the executor.
HistSubmit ==
    /\ hist_pc = "start"
    /\ hist_requests' = [p \in 1..max_pages(hist_days) |->
                            [pageIndex |-> p, pageSize |-> PageSize]]
    /\ hist_pending' = 1..max_pages(hist_days)
    /\ hist_pc' = "collect"
    /\ UNCHANGED <<hist_days, hist_tod, hist_data_list, hist_failed, hist_received,
                   hist_result>>
    /\ UNCHANGED <<valVars, quoteVars, keyVars, holdVars, fundVars>>

\* Lines 53-56: as_completed yields the next finished page fetch, whichever
\* it is, and its non-empty result extends data_list.
HistCollect ==
    /\ hist_pc = "collect"
    /\ \E p \in hist_pending : \E resp \in HistResponses :
          LET res == fetch_page(resp)
          IN  /\ hist_data_list' = extend(hist_data_list, res)
              /\ hist_failed' = IF res = <<>> THEN hist_failed \cup {p} ELSE hist_failed
              /\ hist_received' = hist_received \cup {res[i] : i \in DOMAIN res}
              /\ hist_pending' = hist_pending \ {p}
    /\ UNCHANGED <<hist_days, hist_tod, hist_requests, hist_result, hist_pc>>
    /\ UNCHANGED <<valVars, quoteVars, keyVars, holdVars, fundVars>>

\* Lines 58-80.
HistReturn ==
    /\ hist_pc = "collect"
    /\ hist_pending = {}
    /\ hist_result' = build_frame(hist_data_list, hist_days, hist_tod)
    /\ hist_pc' = "done"
    /\ UNCHANGED <<hist_days, hist_tod, hist_requests, hist_pending, hist_data_list,
                   hist_failed, hist_received>>
    /\ UNCHANGED <<valVars, quoteVars, keyVars, holdVars, fundVars>>

HistNext == HistSubmit \/ HistCollect \/ HistReturn

(***************************************************************************)
(* Claims about the history fetcher                                        *)
(***************************************************************************)
\* C3: whatever pages upstream returns (overlapping ones included) and
\* whatever the completion order, the returned series is strictly ascending
\* by date, has no two records with the same date, and holds only records
\* dated within the requested window.
C3_StrictlyAscendingDeduplicated ==
    (hist_pc = "done" /\ hist_result # None) =>
        LET df == hist_result[1] IN
        /\ \A i, j \in 1..Len(df) : i < j => df[i].date[1] < df[j].date[1]
        /\ \A i \in 1..Len(df) :
              /\ 2 * df[i].date[1] >= start_date(hist_days, hist_tod)
              /\ 2 * df[i].date[1] <= hist_tod

\* A record with both fields and a date that parses.
WellFormed(rec) ==
    "FSRQ" \in DOMAIN rec /\ "DWJZ" \in DOMAIN rec /\ rec.FSRQ.ok

\* Its date is not before now minus days (times in half days, as above).
InRequestedWindow(rec) == 2 * rec.FSRQ.day >= hist_tod - 2 * hist_days

\* C19: exactly the pages 1 .. (days div 20) + 2 are requested, each once
\* and with page size 20; a page that fails or returns nothing does not keep
\* the records of the other pages out of the result, in whatever order the
\* page fetches complete; and None is returned when every page fails or
\* returns nothing.
C19_PagesAndMerge ==
    hist_pc = "done" =>
        /\ Len(hist_requests) = (hist_days \div 20) + 2
        /\ \A p \in 1..((hist_days \div 20) + 2) :
              Cardinality({i \in DOMAIN hist_requests : hist_requests[i].pageIndex = p}) = 1
        /\ \A i \in DOMAIN hist_requests : hist_requests[i].pageSize = 20
        /\ (hist_received # {} /\ \A rec \in hist_received : WellFormed(rec)) =>
              /\ hist_result # None
              /\ \A rec \in hist_received :
                    InRequestedWindow(rec) =>
                        \E i \in DOMAIN hist_result[1] :
                            hist_result[1][i] = [date |-> Some(rec.FSRQ.day), nav |-> rec.DWJZ]
        /\ hist_failed = 1..((hist_days \div 20) + 2) => hist_result = None

\* Of three pages the first failed or returned nothing, the others returned
\* a record each, and both records are in the result.
C19_Witness ==
    /\ hist_pc = "done"
    /\ Len(hist_requests) = 3
    /\ hist_failed = {1}
    /\ Cardinality(hist_received) = 2
    /\ hist_result # None
    /\ Len(hist_result[1]) = 2

(***************************************************************************)
(* data_fetcher.py: get_realtime_stock_prices                              *)
(***************************************************************************)
BatchSize == 20

Min(a, b) == IF a < b THEN a ELSE b

Range(f) == {f[i] : i \in DOMAIN f}

\* str.startswith
startswith(s, p) == Len(s) >= Len(p) /\ SubSeq(s, 1, Len(p)) = p

PrefixSH == <<"s", "h">>

PrefixSZ == <<"s", "z">>

PrefixBJ == <<"b", "j">>

PrefixHK == <<"r", "t", "_", "h", "k">>

PrefixUS == <<"g", "b", "_">>

\* One field of data_str.split(','): its text, and whether float() accepts it
\* and with what value.
Num(k) == [text |-> "num", isnum |-> TRUE, n |-> k]

Txt(t) == [text |-> t, isnum |-> FALSE, n |-> 0]

\* The record written when no field was read (lines 409-411 and 438-442).
Placeholder == [name |-> "Unknown", price |-> RZero, change |-> RZero]

\* float(data[i]) raises ValueError on a field that is not a number.
float_raises(data, idxs) == \E i \in idxs : ~data[i].isnum

\* Lines 413-436: <<>> when float() raises, else <<record>>. Positions are
\* Python's 0-based ones plus one.
parse_fields(key, data) ==
    IF startswith(key, PrefixHK)
    THEN IF Len(data) >= 9
         THEN IF float_raises(data, {7, 9}) THEN None
              ELSE Some([name |-> data[2].text, price |-> RInt(data[7].n),
                         change |-> RInt(data[9].n)])
         ELSE Some(Placeholder)
    ELSE IF startswith(key, PrefixUS)
    THEN IF Len(data) >= 3
         THEN IF float_raises(data, {2, 3}) THEN None
              ELSE Some([name |-> data[1].text, price |-> RInt(data[2].n),
                         change |-> RInt(data[3].n)])
         ELSE Some(Placeholder)
    ELSE IF Len(data) >= 4
         THEN IF float_raises(data, {3, 4}) THEN None
              ELSE LET pre_close == data[3].n
                       current_price == data[4].n
                   IN  Some([name |-> data[1].text, price |-> RInt(current_price),
                             change |-> IF pre_close > 0
                                        THEN Norm((current_price - pre_close) * 100,
                                                  pre_close)
                                        ELSE RZero])
         ELSE Some(Placeholder)

\* f with key k set to v (results[key] = ...).
dict_set(f, k, v) == [x \in DOMAIN f \cup {k} |-> IF x = k THEN v ELSE f[x]]

\* A response line is [form |-> "empty"] (an empty line), "nosuch" (it holds
\* ="" ), "noeq" (no '=' in it), "emptydata" (nothing after the '=') or
\* "quote" with the key after hq_str_ and the comma-separated fields.
\* Lines 398-446: the effect of one line on results.
parse_line(results, line) ==
    IF line.form # "quote" THEN results
    ELSE LET rec == parse_fields(line.key, line.data)
         IN  IF rec = None THEN results ELSE dict_set(results, line.key, rec[1])

RECURSIVE parse_lines(_, _)
parse_lines(results, lines) ==
    IF lines = <<>> THEN results
    ELSE parse_lines(parse_line(results, Head(lines)), Tail(lines))

\* Lines 393-448: a batch whose request fails leaves results as it is.
fetch_batch(results, resp) ==
    IF resp.kind = "error" THEN results ELSE parse_lines(results, resp.lines)

\* The batch chunked() yields at offset pos.
batch_at(codes, pos) == SubSeq(codes, pos + 1, Min(pos + BatchSize, Len(codes)))

\* list(set(stock_codes)): the distinct codes in an order Python does not fix.
Orderings(S) ==
    {o \in [1..Cardinality(S) -> S] : \A i, j \in DOMAIN o : i # j => o[i] # o[j]}

\* The distinct codes in the order of their first occurrence.
first_seen(codes) ==
    LET firsts == {i \in DOMAIN codes : \A j \in 1..(i - 1) : codes[j] # codes[i]}
        nth(k) == CHOOSE i \in firsts : Cardinality({j \in firsts : j < i}) = k - 1
    IN  [k \in 1..Cardinality(firsts) |-> codes[nth(k)]]

Reverse(s) == [i \in 1..Len(s) |-> s[Len(s) + 1 - i]]

Rotate(s) == IF s = <<>> THEN s ELSE Tail(s) \o <<Head(s)>>

\* Sets of more than MaxShuffled codes are not taken in every order but in
\* four: first occurrence, its reverse, and each of the two rotated by one.
MaxShuffled == 3

\* Mutant: the codes are not deduplicated.
list_set_keepsDuplicates(stock_codes) == {stock_codes, Reverse(stock_codes)}

\* Line 379: unique_codes = list(set(stock_codes)).
list_set(stock_codes) ==
    IF Cardinality(Range(stock_codes)) <= MaxShuffled
    THEN Orderings(Range(stock_codes))
    ELSE LET o == first_seen(stock_codes)
         IN  {o, Reverse(o), Rotate(o), Rotate(Reverse(o))}

(***************************************************************************)
(* Inputs of the quote fetcher                                             *)
(***************************************************************************)
MaxCodes == 2

MaxLines == 2

KeySH == PrefixSH \o <<"6", "0", "0", "5", "1", "9">>

KeyHK == PrefixHK \o <<"0", "0", "7", "0", "0">>

KeyUS == PrefixUS \o <<"a", "a", "p", "l">>

KeySZ == PrefixSZ \o <<"0", "0", "0", "0", "0", "1">>

QInputKeys == {KeySH, KeyHK, KeyUS}

\* Upstream may answer for a key nobody asked for.
QLineKeys == QInputKeys \cup {KeySZ}

QDatas ==
    {<<Txt("n"), Num(5)>>,
     <<Txt("n"), Num(10), Num(10), Num(11)>>,
     <<Txt("n"), Num(10), Num(0), Num(11)>>,
     <<Txt("n"), Txt("x"), Txt("x"), Txt("x")>>,
     <<Txt("e"), Txt("n"), Num(1), Num(1), Num(1), Num(1), Num(50), Num(1), Num(2)>>,
     <<Txt("e"), Txt("n"), Num(1), Num(1), Num(1), Num(1), Txt("x"), Num(1), Num(2)>>}

QLines ==
    {[form |-> f, key |-> <<>>, data |-> <<>>] : f \in {"empty", "nosuch", "noeq", "emptydata"}}
    \cup {[form |-> "quote", key |-> k, data |-> d] : k \in QLineKeys, d \in QDatas}

QResponses ==
    {[kind |-> "error", lines |-> <<>>]}
    \cup {[kind |-> "content", lines |-> l] : l \in SeqsUpTo(QLines, MaxLines)}

\* Inputs of more than one batch: the first n of the keys sh600001, sh600002,
\* ..., once, or followed by the first key again, or by the whole list again.
MaxBulk == 45

DigitChars == <<"0", "1", "2", "3", "4", "5", "6", "7", "8", "9">>

BulkKey(i) ==
    PrefixSH \o <<"6", "0", "0", "0", DigitChars[(i \div 10) + 1], DigitChars[(i % 10) + 1]>>

BulkCodes(n) == [i \in 1..n |-> BulkKey(i)]

BulkInputs ==
    {BulkCodes(n) \o BulkCodes(d) : n \in 0..MaxBulk, d \in {0, 1}}
    \cup {BulkCodes(n) \o BulkCodes(n) : n \in {BatchSize, MaxBulk}}

\* For them upstream fails, answers nothing, or answers one quote.
BulkResponses ==
    {[kind |-> "error", lines |-> <<>>],
     [kind |-> "content", lines |-> <<>>],
     [kind |-> "content",
      lines |-> <<[form |-> "quote", key |-> BulkKey(1),
                   data |-> <<Txt("n"), Num(10), Num(10), Num(11)>>]>>]}

Upstream(which) == IF which = "any" THEN QResponses ELSE BulkResponses

QuoteIdle ==
    /\ q_stock_codes = <<>>
    /\ q_lines = <<>>
    /\ q_upstream = "any"
    /\ q_unique_codes = <<>>
    /\ q_pos = 0
    /\ q_requests = <<>>
    /\ q_seen = {}
    /\ q_results = <<>>
    /\ q_pc = "idle"

QuoteInit ==
    /\ q_stock_codes \in SeqsUpTo(QInputKeys, MaxCodes)
    /\ q_lines = <<>>
    /\ q_upstream = "any"
    /\ q_unique_codes = <<>>
    /\ q_pos = 0
    /\ q_requests = <<>>
    /\ q_seen = {}
    /\ q_results = <<>>
    /\ q_pc = "start"

\* Lines 376-377: no codes, no request.
QuoteEmpty ==
    /\ q_pc = "start"
    /\ q_stock_codes = <<>>
    /\ q_pc' = "done"
    /\ UNCHANGED <<q_stock_codes, q_unique_codes, q_pos, q_requests, q_seen, q_lines,
                   q_upstream, q_results>>
    /\ UNCHANGED <<valVars, histVars, keyVars, holdVars, fundVars>>

\* Lines 379-380.
QuoteDedup ==
    /\ q_pc = "start"
    /\ q_stock_codes # <<>>
    /\ q_unique_codes' \in list_set(q_stock_codes)
    /\ q_pc' = "loop"
    /\ UNCHANGED <<q_stock_codes, q_pos, q_requests, q_seen, q_lines, q_upstream, q_results>>
    /\ UNCHANGED <<valVars, histVars, keyVars, holdVars, fundVars>>

\* Lines 389-448: one iteration of `for batch in chunked(unique_codes, 20)`.
QuoteBatch ==
    /\ q_pc = "loop"
    /\ q_pos < Len(q_unique_codes)
    /\ \E resp \in Upstream(q_upstream) :
          /\ q_results' = fetch_batch(q_results, resp)
          /\ q_seen' = q_seen \cup {l \in Range(resp.lines) : l.form = "quote"}
          /\ q_lines' = q_lines \o resp.lines
    /\ q_requests' = Append(q_requests, batch_at(q_unique_codes, q_pos))
    /\ q_pos' = q_pos + BatchSize
    /\ UNCHANGED <<q_stock_codes, q_unique_codes, q_upstream, q_pc>>
    /\ UNCHANGED <<valVars, histVars, keyVars, holdVars, fundVars>>

\* Line 450.
QuoteReturn ==
    /\ q_pc = "loop"
    /\ q_pos >= Len(q_unique_codes)
    /\ q_pc' = "done"
    /\ UNCHANGED <<q_stock_codes, q_unique_codes, q_pos, q_requests, q_seen, q_lines,
                   q_upstream, q_results>>
    /\ UNCHANGED <<valVars, histVars, keyVars, holdVars, fundVars>>

QuoteNext == QuoteEmpty \/ QuoteDedup \/ QuoteBatch \/ QuoteReturn

\* A call with up to MaxBulk distinct codes.
BulkInit ==
    /\ q_stock_codes \in BulkInputs
    /\ q_upstream = "plain"
    /\ q_unique_codes = <<>>
    /\ q_pos = 0
    /\ q_requests = <<>>
    /\ q_seen = {}
    /\ q_lines = <<>>
    /\ q_results = <<>>
    /\ q_pc = "start"

enough_fields(key, data) ==
    IF startswith(key, PrefixHK) THEN Len(data) >= 9
    ELSE IF startswith(key, PrefixUS) THEN Len(data) >= 3
    ELSE Len(data) >= 4

\* C5: a key whose response line cannot be parsed into name, price and
\* change for its market (a line with fewer fields than the format reads, for
\* one) is absent from the returned map; the map holds no placeholder record.
C5_UnparsedKeysAbsent ==
    q_pc = "done" =>
        /\ \A k \in DOMAIN q_results : q_results[k] # Placeholder
        /\ \A k \in QLineKeys :
              (\A l \in q_seen : l.key = k => ~enough_fields(k, l.data))
                  => k \notin DOMAIN q_results

\* ceil(n / size), written without the model's own chunking.
CeilDiv(n, size) == (n + size - 1) \div size

\* The number of (request, position) pairs at which key k is sent.
TimesSent(k) ==
    Cardinality({ij \in UNION {{<<i, j>> : j \in DOMAIN q_requests[i]} : i \in DOMAIN q_requests} :
                    q_requests[ij[1]][ij[2]] = k})

\* C13: for n unique keys exactly ceil(n/20) requests are issued, each with
\* at most 20 keys, every unique key is sent in exactly one request and
\* nothing else is sent; duplicate input keys are sent once; an empty input
\* issues no request and returns an empty map.
C13_BatchPartition ==
    q_pc = "done" =>
        /\ Len(q_requests) = CeilDiv(Cardinality(Range(q_stock_codes)), 20)
        /\ \A i \in DOMAIN q_requests : Len(q_requests[i]) <= 20
        /\ \A k \in Range(q_stock_codes) : TimesSent(k) = 1
        /\ \A i \in DOMAIN q_requests : Range(q_requests[i]) \subseteq Range(q_stock_codes)
        /\ q_stock_codes = <<>> => (q_requests = <<>> /\ q_results = <<>>)

\* 45 unique keys, each given twice, went out as batches of 20, 20 and 5.
C13_Witness ==
    /\ q_pc = "done"
    /\ Len(q_stock_codes) = 90
    /\ Cardinality(Range(q_stock_codes)) = 45
    /\ [i \in DOMAIN q_requests |-> Len(q_requests[i])] = <<20, 20, 5>>

\* A line that parses into name, price and change for the market of its key:
\* it has the fields its format reads and the numeric ones are numbers.
line_valid(l) ==
    /\ l.form = "quote"
    /\ enough_fields(l.key, l.data)
    /\ \A i \in (IF startswith(l.key, PrefixHK) THEN {7, 9}
                  ELSE IF startswith(l.key, PrefixUS) THEN {2, 3}
                  ELSE {3, 4}) : l.data[i].isnum

\* C14: a line that cannot be parsed does not abort its batch and a batch
\* that fails does not abort the others: every valid line of every fetched
\* batch has its record in the returned map, whatever invalid lines or
\* failed batches come before or after it (of several valid lines for one
\* key the last one counts), and the call returns a map.
C14_ValidLinesSurvive ==
    q_pc = "done" =>
        \A i \in DOMAIN q_lines :
            (/\ line_valid(q_lines[i])
             /\ \A j \in (i + 1)..Len(q_lines) :
                   ~(line_valid(q_lines[j]) /\ q_lines[j].key = q_lines[i].key))
            => /\ q_lines[i].key \in DOMAIN q_results
               /\ Some(q_results[q_lines[i].key])
                     = parse_fields(q_lines[i].key, q_lines[i].data)

(***************************************************************************)
(* data_fetcher.py: get_fund_holdings, the quote key of a row              *)
(***************************************************************************)
UpperCase ==
    <<"A", "B", "C", "D", "E", "F", "G", "H", "I", "J", "K", "L", "M",
      "N", "O", "P", "Q", "R", "S", "T", "U", "V", "W", "X", "Y", "Z">>

LowerCase ==
    <<"a", "b", "c", "d", "e", "f", "g", "h", "i", "j", "k", "l", "m",
      "n", "o", "p", "q", "r", "s", "t", "u", "v", "w", "x", "y", "z">>

\* re.search(r'[a-zA-Z]', stock_code)
has_letter(s) == \E i \in DOMAIN s : s[i] \in Range(UpperCase) \cup Range(LowerCase)

lower_char(c) ==
    IF c \in Range(UpperCase)
    THEN LowerCase[CHOOSE i \in DOMAIN UpperCase : UpperCase[i] = c]
    ELSE c

\* str.lower
lower(s) == [i \in DOMAIN s |-> lower_char(s[i])]

\* str.zfill: zeros on the left up to width, after a leading sign.
zfill(s, width) ==
    IF Len(s) >= width THEN s
    ELSE LET zeros == [i \in 1..(width - Len(s)) |-> "0"]
         IN  IF s # <<>> /\ s[1] \in {"+", "-"}
             THEN <<s[1]>> \o zeros \o Tail(s)
             ELSE zeros \o s

\* Mutant: the fallback for an unrecognised market id is missing, so
\* sina_code keeps its initial None.
sina_code_noFallback(market_id, stock_code) ==
    IF market_id # None
    THEN LET mid == market_id[1]
         IN  IF mid = 0 THEN Some(PrefixSZ \o stock_code)
             ELSE IF mid = 1 THEN Some(PrefixSH \o stock_code)
             ELSE IF mid = 116 THEN Some(PrefixHK \o zfill(stock_code, 5))
             ELSE IF mid >= 100 THEN Some(PrefixUS \o lower(stock_code))
             ELSE None
    ELSE IF has_letter(stock_code) THEN Some(PrefixUS \o lower(stock_code))
         ELSE IF Len(stock_code) < 6 THEN Some(PrefixHK \o zfill(stock_code, 5))
         ELSE IF startswith(stock_code, <<"6">>) \/ startswith(stock_code, <<"5">>)
              THEN Some(PrefixSH \o stock_code)
         ELSE IF startswith(stock_code, <<"4">>) \/ startswith(stock_code, <<"8">>)
              THEN Some(PrefixBJ \o stock_code)
         ELSE Some(PrefixSZ \o stock_code)

\* Mutant: the test for the US range comes before the test for Hong Kong,
\* so market id 116 takes the US form.
sina_code_usBeforeHK(market_id, stock_code) ==
    IF market_id # None
    THEN LET mid == market_id[1]
         IN  IF mid = 0 THEN Some(PrefixSZ \o stock_code)
             ELSE IF mid = 1 THEN Some(PrefixSH \o stock_code)
             ELSE IF mid >= 100 THEN Some(PrefixUS \o lower(stock_code))
             ELSE IF mid = 116 THEN Some(PrefixHK \o zfill(stock_code, 5))
             ELSE IF startswith(stock_code, <<"6">>) \/ startswith(stock_code, <<"9">>)
                  THEN Some(PrefixSH \o stock_code)
             ELSE Some(PrefixSZ \o stock_code)
    ELSE IF has_letter(stock_code) THEN Some(PrefixUS \o lower(stock_code))
         ELSE IF Len(stock_code) < 6 THEN Some(PrefixHK \o zfill(stock_code, 5))
         ELSE IF startswith(stock_code, <<"6">>) \/ startswith(stock_code, <<"5">>)
              THEN Some(PrefixSH \o stock_code)
         ELSE IF startswith(stock_code, <<"4">>) \/ startswith(stock_code, <<"8">>)
              THEN Some(PrefixBJ \o stock_code)
         ELSE Some(PrefixSZ \o stock_code)

\* Lines 251-280: sina_code, None (its initial value) or <<key>>. market_id
\* is None when the row has no link, else <<int(market_id)>>.
sina_code(market_id, stock_code) ==
    IF market_id # None
    THEN LET mid == market_id[1]
         IN  IF mid = 0 THEN Some(PrefixSZ \o stock_code)
             ELSE IF mid = 1 THEN Some(PrefixSH \o stock_code)
             ELSE IF mid = 116 THEN Some(PrefixHK \o zfill(stock_code, 5))
             ELSE IF mid >= 100 THEN Some(PrefixUS \o lower(stock_code))
             ELSE IF startswith(stock_code, <<"6">>) \/ startswith(stock_code, <<"9">>)
                  THEN Some(PrefixSH \o stock_code)
             ELSE Some(PrefixSZ \o stock_code)
    ELSE IF has_letter(stock_code) THEN Some(PrefixUS \o lower(stock_code))
         ELSE IF Len(stock_code) < 6 THEN Some(PrefixHK \o zfill(stock_code, 5))
         ELSE IF startswith(stock_code, <<"6">>) \/ startswith(stock_code, <<"5">>)
              THEN Some(PrefixSH \o stock_code)
         ELSE IF startswith(stock_code, <<"4">>) \/ startswith(stock_code, <<"8">>)
              THEN Some(PrefixBJ \o stock_code)
         ELSE Some(PrefixSZ \o stock_code)

(***************************************************************************)
(* Inputs of the quote-key computation                                     *)
(***************************************************************************)
\* The market ids drawn are 0 .. 2 and MidBase - 2 .. MidBase + MidSpan.
MidBase == 100

MidSpan == 17

KeyMarketIds ==
    {None} \cup {Some(m) : m \in (0..2) \cup ((MidBase - 2)..(MidBase + MidSpan))}

\* Codes a link can carry ([a-zA-Z0-9]+).
KeyLinkCodes ==
    {<<"6", "0", "0", "5", "1", "9">>, <<"5", "1", "0", "3", "0", "0">>,
     <<"0", "0", "0", "0", "0", "1">>, <<"3", "0", "0", "7", "5", "0">>,
     <<"4", "3", "0", "0", "4", "7">>, <<"8", "3", "0", "7", "9", "9">>,
     <<"9", "0", "0", "9", "0", "1">>, <<"7", "0", "0">>, <<"0", "0", "7", "0", "0">>,
     <<"0", "9", "9", "8", "8">>, <<"A", "A", "P", "L">>, <<"B", "R", "K", "b">>,
     <<"6">>, <<"6", "8", "8", "0", "0", "0", "1">>}

\* The text of the second cell, used when the row has no link, is any text.
KeyCellCodes == KeyLinkCodes \cup {<<>>, <<"-", "7">>, <<"6", ".", "5">>}

KeyIdle ==
    /\ key_market_id = None
    /\ key_stock_code = <<>>
    /\ key_result = None

KeyInit ==
    /\ key_market_id \in KeyMarketIds
    /\ key_stock_code \in (IF key_market_id = None THEN KeyCellCodes ELSE KeyLinkCodes)
    /\ key_result = None

\* Lines 251-280 for one row.
ComputeKey ==
    /\ key_result = None
    /\ key_result' = Some(sina_code(key_market_id, key_stock_code))
    /\ UNCHANGED <<key_market_id, key_stock_code>>
    /\ UNCHANGED <<valVars, histVars, quoteVars, holdVars, fundVars>>

KeyNext == ComputeKey

(***************************************************************************)
(* Claims about the quote key                                              *)
(***************************************************************************)
\* C10: for every code and every market id, present or absent, the quote
\* key of a row is computed without an error and is a non-empty string.
C10_KeyTotalNonEmpty ==
    key_result # None =>
        /\ key_result[1] # None
        /\ Len(key_result[1][1]) > 0
        /\ \A i \in DOMAIN key_result[1][1] : key_result[1][1][i] \in STRING

\* An unrecognised market id below 100 with a code that goes to Shenzhen.
C10_Witness ==
    /\ key_result # None
    /\ key_market_id = Some(2)
    /\ key_stock_code = <<"0", "0", "0", "0", "0", "1">>
    /\ key_result[1] = Some(<<"s", "z", "0", "0", "0", "0", "0", "1">>)

\* The key the specification's rules give, written from the rules and not
\* from sina_code.  Zeros are put in front of the digits, behind a leading
\* sign when the text has one.
RECURSIVE PadLeft(_, _)
PadLeft(code, width) ==
    IF Len(code) >= width THEN code ELSE PadLeft(<<"0">> \o code, width)

ZeroPadded(code, width) ==
    IF code # <<>> /\ code[1] \in {"+", "-"}
    THEN <<code[1]>> \o PadLeft(Tail(code), width - 1)
    ELSE PadLeft(code, width)

Lowered(code) ==
    [i \in DOMAIN code |->
        IF \E j \in DOMAIN UpperCase : UpperCase[j] = code[i]
        THEN LowerCase[CHOOSE j \in DOMAIN UpperCase : UpperCase[j] = code[i]]
        ELSE code[i]]

FirstIs(code, digits) == code # <<>> /\ code[1] \in digits

ShapeKey(code) ==
    IF \E i \in DOMAIN code : code[i] \in Range(UpperCase) \cup Range(LowerCase)
    THEN <<"g", "b", "_">> \o Lowered(code)
    ELSE IF Len(code) < 6 THEN <<"r", "t", "_", "h", "k">> \o ZeroPadded(code, 5)
    ELSE IF FirstIs(code, {"6", "5"}) THEN <<"s", "h">> \o code
    ELSE IF FirstIs(code, {"4", "8"}) THEN <<"b", "j">> \o code
    ELSE <<"s", "z">> \o code

UnrecognisedMid ==
    /\ key_market_id # None
    /\ key_market_id[1] \notin {0, 1, 116}
    /\ key_market_id[1] < 100

\* C11: when the market id of a row is present but is none of 0, 1, 116 or a
\* value >= 100, the quote key is the one the code-shape heuristics give
\* (letter -> gb_ lowercase, shorter than 6 -> rt_hk zero-padded to 5,
\* leading 6 or 5 -> sh, leading 4 or 8 -> bj, else sz).
C11_UnrecognisedMidUsesHeuristics ==
    (key_result # None /\ UnrecognisedMid) =>
        key_result[1] = Some(ShapeKey(key_stock_code))

\* C12: market id 0 gives sz + code, 1 gives sh + code, 116 gives rt_hk +
\* the code left-padded with zeros to 5 characters, any other market id
\* >= 100 gives gb_ + the lowercase code, and an absent market id gives the
\* key of the code-shape heuristics.
C12_PriorityRules ==
    key_result # None =>
        /\ key_market_id = Some(0) =>
              key_result[1] = Some(<<"s", "z">> \o key_stock_code)
        /\ key_market_id = Some(1) =>
              key_result[1] = Some(<<"s", "h">> \o key_stock_code)
        /\ key_market_id = Some(116) =>
              key_result[1] = Some(<<"r", "t", "_", "h", "k">> \o PadLeft(key_stock_code, 5))
        /\ (key_market_id # None /\ key_market_id[1] >= 100 /\ key_market_id[1] # 116) =>
              key_result[1] = Some(<<"g", "b", "_">> \o Lowered(key_stock_code))
        /\ key_market_id = None =>
              key_result[1] = Some(ShapeKey(key_stock_code))

\* Market id 116 with the short Hong Kong code 700.
C12_Witness ==
    /\ key_result # None
    /\ key_market_id = Some(116)
    /\ key_stock_code = <<"7", "0", "0">>
    /\ key_result[1] = Some(<<"r", "t", "_", "h", "k", "0", "0", "7", "0", "0">>)

(***************************************************************************)
(* data_fetcher.py: get_fund_holdings                                      *)
(*                                                                         *)
(* A fund name is a sequence of tokens; the Chinese words the code looks   *)
(* for are written in Latin letters: "LianJie" is the feeder/link marker,  *)
(* "FaQiShi" the promoter-initiated marker, "RenMinBi" and "MeiYuan" the   *)
(* currency qualifiers, "(QDII)" and "(QDII)fw" the half- and full-width   *)
(* QDII markers, and the issuer names are spelled the same way.            *)
(***************************************************************************)
\* A Python value used as a condition: None and '' are false.
truthy(opt) == opt # None /\ opt[1] # <<>>

FeederWeight == 95

LowWeight == 60

HighWeight == 100

MinCols == 7

\* One <tr> of the table: th (the row holds "th"), link (None, or the
\* market id and code of unify/r/<id>.<code>), ncols (the number of <td>
\* cells), cell_code (the text of the second cell), stock_name, weight_str.
\* A weight string is "empty", "dash" ('--'), "num" (float() accepts it, with
\* value n) or "text" (float() raises).
\* Lines 215-292: None when the row is skipped, else <<holding>>.
parse_row(row) ==
    IF row.th THEN None
    ELSE LET market_id == IF row.link # None THEN Some(row.link[1].market_id) ELSE None
             stock_code == IF row.link # None THEN row.link[1].code
                           ELSE IF row.ncols > 1 THEN row.cell_code
                           ELSE <<"U", "n", "k", "n", "o", "w", "n">>
         IN  IF row.ncols < MinCols THEN None
             ELSE IF row.weight_str.kind \in {"empty", "dash"} THEN None
             ELSE IF row.weight_str.kind = "text" THEN None
             ELSE Some([code |-> stock_code, name |-> row.stock_name,
                        weight |-> row.weight_str.n,
                        fetch_code |-> sina_code(market_id, stock_code)])

RECURSIVE parse_rows(_, _)
parse_rows(rows, holdings) ==
    IF rows = <<>> THEN holdings
    ELSE LET h == parse_row(Head(rows))
         IN  parse_rows(Tail(rows), IF h = None THEN holdings ELSE Append(holdings, h[1]))

\* Line 210: the table fragment is "missing", "nodata" (it holds the no-data
\* text), "short" (50 characters or fewer) or a "table".
table_rows(table) == IF table.form = "table" THEN table.rows ELSE <<>>

RECURSIVE sum_weights(_)
sum_weights(holdings) ==
    IF holdings = <<>> THEN 0 ELSE Head(holdings).weight + sum_weights(Tail(holdings))

is_abnormal_high_weight(total_weight) == total_weight > HighWeight

\* Mutant: the low-weight test admits the threshold itself.
is_suspicious_low_weight_inclusive(total_weight) == total_weight <= LowWeight

is_suspicious_low_weight(total_weight) == total_weight < LowWeight

\* Line 308.
is_feeder_named(fund_name) ==
    truthy(fund_name) /\ ("LianJie" \in Range(fund_name[1]) \/ "ETF" \in Range(fund_name[1]))

\* Lines 82-130: jbgk and zqcc are the two upstream answers; the second is
\* asked only when the first gives no name.
get_fund_name_backup(jbgk, zqcc) ==
    IF jbgk.kind = "match" THEN Some(jbgk.name)
    ELSE IF zqcc.kind \in {"link", "title"} THEN Some(zqcc.name)
    ELSE None

\* Lines 132-151: the suggest answer is "error" (the request or the decoding
\* raised), "nomarker" (no suggestvalue=" in it), "empty" (an empty value),
\* "short" (the first match has fewer than 4 parts) or "match" with parts[2].
search_etf_code(resp) == IF resp.kind = "match" THEN Some(resp.code) ELSE None

common_prefixes ==
    {"NanFang", "HuaXia", "BoShi", "YiFangDa", "JiaShi", "FuGuo", "GuangFa",
     "HuiTianFu", "ZhaoShang", "GongYin", "ZhongOu", "TianHong", "HuaAn", "PengHua",
     "GuoTai", "HuaBao", "YinHua", "DaCheng", "JingShunChangCheng"}

Qualifiers == {"FaQiShi", "(QDII)fw", "(QDII)", "RenMinBi", "MeiYuan"}

DropLast(t, n) == SubSeq(t, 1, Len(t) - n)

\* Lines 316-337.
clean_name(fund_name) ==
    LET n1 == IF fund_name # <<>> /\ fund_name[1] \in common_prefixes
              THEN Tail(fund_name) ELSE fund_name
        n2 == SelectSeq(n1, LAMBDA t : t \notin Qualifiers)
        n3 == IF n2 # <<>> /\ n2[Len(n2)] = "LianJie" THEN DropLast(n2, 1)
              ELSE IF Len(n2) >= 2 /\ n2[Len(n2) - 1] = "LianJie"
                      /\ n2[Len(n2)] \in Range(UpperCase)
                   THEN DropLast(n2, 2)
              ELSE n2
        n4 == SelectSeq(n3, LAMBDA t : t # "LianJie")
    IN  IF n4 # <<>> /\ n4[Len(n4)] \in {"A", "B", "C", "D", "E"}
        THEN DropLast(n4, 1) ELSE n4

\* Mutant: a search that returns the fund's own code is not rejected.
resolve_target_keepsSelf(fund_code, target_name, s1, s2) ==
    LET first == search_etf_code(s1)
        retry == ~truthy(first) /\ "ETF" \notin Range(target_name)
        second == search_etf_code(s2)
    IN  [target_code |-> IF retry THEN second ELSE first,
         searches |-> IF retry THEN <<target_name, target_name \o <<"ETF">>>>
                      ELSE <<target_name>>,
         found |-> IF retry THEN <<first, second>> ELSE <<first>>]

\* Lines 339-352: the searches made for target_name and the target_code left.
resolve_target(fund_code, target_name, s1, s2) ==
    LET first == search_etf_code(s1)
        target1 == IF first = Some(fund_code) THEN None ELSE first
        retry == ~truthy(target1) /\ "ETF" \notin Range(target_name)
        second == search_etf_code(s2)
    IN  [target_code |-> IF retry THEN second ELSE target1,
         searches |-> IF retry THEN <<target_name, target_name \o <<"ETF">>>>
                      ELSE <<target_name>>,
         found |-> IF retry THEN <<first, second>> ELSE <<first>>]

\* Mutant: the target always gets the Shenzhen prefix.
etf_fetch_code_alwaysSZ(target_code) == PrefixSZ \o target_code

\* Lines 356-358.
etf_fetch_code(target_code) ==
    IF startswith(target_code, <<"5">>) THEN PrefixSH \o target_code
    ELSE PrefixSZ \o target_code

RealtimeTracking == "realtime-tracking"

\* Mutant: a missing name is returned as the empty string.
result_name_noPlaceholder(fund_name, fund_code) ==
    IF fund_name # None THEN fund_name[1] ELSE <<>>

\* Line 363: fund_name if fund_name else f"Fund {fund_code}".
result_name(fund_name, fund_code) ==
    IF truthy(fund_name) THEN fund_name[1] ELSE <<"Fund ">> \o fund_code

\* Mutant: without a target nothing is returned.
return_holdings_noData(fund_name, fund_code, holdings, report_date) == None

\* Lines 362-365: the return when no target holding was returned.
return_holdings(fund_name, fund_code, holdings, report_date) ==
    IF holdings # <<>>
    THEN Some([fund_name |-> result_name(fund_name, fund_code),
               holdings |-> holdings,
               report_date |-> report_date])
    ELSE None

\* Lines 176-369. The record holds the returned value and the locals the
\* claims speak about.
get_fund_holdings(fund_code, page, jbgk, zqcc, s1, s2) ==
    IF page.kind = "error"
    THEN [result |-> None, fund_name |-> None, holdings |-> <<>>,
          searches |-> <<>>, found |-> <<>>, backup |-> FALSE]
    ELSE LET report_date == IF page.date # None THEN page.date[1] ELSE "--"
             holdings == parse_rows(table_rows(page.table), <<>>)
             total_weight == sum_weights(holdings)
             backup == ~truthy(page.title)
             fund_name == IF backup THEN get_fund_name_backup(jbgk, zqcc) ELSE page.title
             feeder == is_feeder_named(fund_name)
             attempt == /\ \/ holdings = <<>>
                           \/ is_abnormal_high_weight(total_weight) /\ feeder
                           \/ is_suspicious_low_weight(total_weight) /\ feeder
                        /\ feeder
             target_name == clean_name(fund_name[1])
             res == resolve_target(fund_code, target_name, s1, s2)
         IN  IF attempt /\ truthy(res.target_code) /\ res.target_code # Some(fund_code)
             THEN [result |-> Some([fund_name |-> fund_name[1],
                                    holdings |-> <<[code |-> res.target_code[1],
                                                    name |-> target_name,
                                                    weight |-> FeederWeight,
                                                    fetch_code |->
                                                        Some(etf_fetch_code(res.target_code[1]))]>>,
                                    report_date |-> RealtimeTracking]),
                   fund_name |-> fund_name, holdings |-> holdings,
                   searches |-> res.searches, found |-> res.found, backup |-> backup]
             ELSE [result |-> return_holdings(fund_name, fund_code, holdings, report_date),
                   fund_name |-> fund_name, holdings |-> holdings,
                   searches |-> IF attempt THEN res.searches ELSE <<>>,
                   found |-> IF attempt THEN res.found ELSE <<>>,
                   backup |-> backup]

(***************************************************************************)
(* Inputs of get_fund_holdings                                             *)
(***************************************************************************)
MaxRows == 2

FundCode == <<"1", "1", "0", "0", "2", "0">>

Code510300 == <<"5", "1", "0", "3", "0", "0">>

Code159919 == <<"1", "5", "9", "9", "1", "9">>

NameFeederETF == <<"HuaXia", "HuShen300", "ETF", "LianJie", "A">>

NameFeeder == <<"NanFang", "HuangJin", "LianJie", "C">>

NamePlain == <<"HuaXia", "ChengZhang", "HunHe">>

WNum(n) == [kind |-> "num", n |-> n]

WDash == [kind |-> "dash", n |-> 0]

WText == [kind |-> "text", n |-> 0]

LinkRow(mid, code, w) ==
    [th |-> FALSE, link |-> Some([market_id |-> mid, code |-> code]), ncols |-> 9,
     cell_code |-> code, stock_name |-> <<"stock">>, weight_str |-> w]

CellRow(code, w) ==
    [th |-> FALSE, link |-> None, ncols |-> 9,
     cell_code |-> code, stock_name |-> <<"stock">>, weight_str |-> w]

HoldRows ==
    {[th |-> TRUE, link |-> None, ncols |-> 0, cell_code |-> <<>>,
      stock_name |-> <<>>, weight_str |-> WDash],
     [th |-> FALSE, link |-> None, ncols |-> 6, cell_code |-> <<"7", "0", "0">>,
      stock_name |-> <<"stock">>, weight_str |-> WNum(45)],
     LinkRow(1, <<"6", "0", "0", "5", "1", "9">>, WNum(45)),
     LinkRow(1, <<"6", "0", "0", "5", "1", "9">>, WNum(60)),
     LinkRow(0, <<"0", "0", "0", "0", "0", "1">>, WNum(40)),
     LinkRow(116, <<"7", "0", "0">>, WNum(-5)),
     CellRow(<<"0", "0", "7", "0", "0">>, WNum(45)),
     CellRow(<<"A", "A", "P", "L">>, WNum(60)),
     LinkRow(105, <<"A", "A", "P", "L">>, WDash),
     LinkRow(0, <<"0", "0", "0", "0", "0", "1">>, WText)}

HoldTables ==
    {[form |-> f, rows |-> <<>>] : f \in {"missing", "nodata", "short"}}
    \cup {[form |-> "table", rows |-> r] : r \in SeqsUpTo(HoldRows, MaxRows)}

HoldPages ==
    {[kind |-> "error"]}
    \cup [kind : {"content"},
          title : {None, Some(<<>>), Some(NameFeederETF), Some(NameFeeder), Some(NamePlain)},
          date : {None, Some("2025-12-31")},
          table : HoldTables]

JbgkResponses ==
    {[kind |-> "error", name |-> <<>>], [kind |-> "nomatch", name |-> <<>>],
     [kind |-> "match", name |-> NameFeeder]}

ZqccResponses ==
    {[kind |-> "error", name |-> <<>>], [kind |-> "nomatch", name |-> <<>>],
     [kind |-> "link", name |-> NamePlain], [kind |-> "title", name |-> <<>>]}

SearchResponses ==
    {[kind |-> k, code |-> <<>>] : k \in {"error", "nomarker", "empty", "short"}}
    \cup {[kind |-> "match", code |-> c] : c \in {FundCode, Code510300, Code159919, <<>>}}

\* The answer of a collaborator that is not asked plays no part.
Unasked(kind_set) == CHOOSE r \in kind_set : r.kind = "error"

HoldInit ==
    /\ hold_fund_code = FundCode
    /\ hold_page \in HoldPages
    /\ hold_fund_name = None
    /\ hold_holdings = <<>>
    /\ hold_searches = <<>>
    /\ hold_found = <<>>
    /\ hold_result = None
    /\ hold_pc = "start"

\* A call of get_fund_holdings(fund_code). The collaborators' answers are
\* drawn for the requests the call makes: the backup pages when the page
\* gives no name, the first search when resolution is attempted, the second
\* when the first leaves no target and the name holds no "ETF".
GetFundHoldings ==
    /\ hold_pc = "start"
    /\ \E jbgk \in JbgkResponses, zqcc \in ZqccResponses :
          /\ (hold_page.kind = "error" \/ truthy(hold_page.title))
                => jbgk = Unasked(JbgkResponses)
          /\ (hold_page.kind = "error" \/ truthy(hold_page.title) \/ jbgk.kind = "match")
                => zqcc = Unasked(ZqccResponses)
          /\ \E s1 \in SearchResponses :
             \E n \in {Len(get_fund_holdings(hold_fund_code, hold_page, jbgk, zqcc,
                                              s1, Unasked(SearchResponses)).searches)} :
                /\ n < 1 => s1 = Unasked(SearchResponses)
                /\ \E s2 \in SearchResponses :
                      /\ n < 2 => s2 = Unasked(SearchResponses)
                      /\ \E out \in {get_fund_holdings(hold_fund_code, hold_page,
                                                        jbgk, zqcc, s1, s2)} :
                            /\ hold_result' = out.result
                            /\ hold_fund_name' = out.fund_name
                            /\ hold_holdings' = out.holdings
                            /\ hold_searches' = out.searches
                            /\ hold_found' = out.found
    /\ hold_pc' = "done"
    /\ UNCHANGED <<hold_fund_code, hold_page>>
    /\ UNCHANGED <<valVars, histVars, quoteVars, keyVars, fundVars>>

HoldNext == GetFundHoldings

(***************************************************************************)
(* Claims about get_fund_holdings                                          *)
(***************************************************************************)
HoldDone == hold_pc = "done" /\ hold_page.kind = "content"

\* The fund's name holds the feeder/link marker or "ETF".
HasFeederMarker ==
    /\ hold_fund_name # None
    /\ \E i \in DOMAIN hold_fund_name[1] : hold_fund_name[1][i] \in {"LianJie", "ETF"}

ParsedTotalWeight ==
    SumOver(DOMAIN hold_holdings, [i \in DOMAIN hold_holdings |-> hold_holdings[i].weight])

\* The name-search collaborator was consulted.
ResolutionTriggered == hold_searches # <<>>

\* C6: every holding of a returned result has weight >= 0.
C6_WeightsNonNegative ==
    (hold_pc = "done" /\ hold_result # None) =>
        \A i \in DOMAIN hold_result[1].holdings : hold_result[1].holdings[i].weight >= 0

\* C7: whenever zero holdings are extracted for a (named) fund, the name
\* search is consulted with the cleaned fund name, with or without the
\* feeder/link or ETF marker in the name.
C7_EmptyHoldingsTriggerResolution ==
    (HoldDone /\ hold_holdings = <<>> /\ truthy(hold_fund_name)) =>
        /\ ResolutionTriggered
        /\ hold_searches[1] = clean_name(hold_fund_name[1])

FirstSearchFoundSelf == hold_found # <<>> /\ hold_found[1] = Some(hold_fund_code)

\* The returned holdings are the synthetic target holding.
ResultIsTarget ==
    hold_result # None /\ hold_result[1].report_date = RealtimeTracking

\* C9 as stated: a first search that returns the fund's own code is always
\* followed by exactly one search of the cleaned name with "ETF" appended,
\* and no fund is searched more than twice.
C9_SelfMatchAlwaysRetries ==
    hold_pc = "done" =>
        /\ Len(hold_searches) <= 2
        /\ FirstSearchFoundSelf =>
              /\ Len(hold_searches) = 2
              /\ hold_searches[2] = hold_searches[1] \o <<"ETF">>

\* C9 (amended): a first search that returns the fund's own code is
\* rejected; when the cleaned name holds no "ETF", exactly one more search,
\* of the cleaned name with "ETF" appended, is made, and when it holds "ETF"
\* no more search is made and resolution gives up; the fund's own code is
\* never the target; no fund is searched more than twice.
C9_SelfMatchRetriesUnlessETF ==
    hold_pc = "done" =>
        /\ Len(hold_searches) <= 2
        /\ FirstSearchFoundSelf =>
              /\ IF "ETF" \notin Range(hold_searches[1])
                 THEN /\ Len(hold_searches) = 2
                      /\ hold_searches[2] = hold_searches[1] \o <<"ETF">>
                      /\ ResultIsTarget =>
                            /\ hold_found[2] = Some(hold_result[1].holdings[1].code)
                            /\ hold_result[1].holdings[1].code # hold_fund_code
                 ELSE /\ Len(hold_searches) = 1
                      /\ ~ResultIsTarget

\* The first search returned the fund's own code and the retry found a target.
C9_Witness ==
    /\ hold_pc = "done"
    /\ FirstSearchFoundSelf
    /\ Len(hold_searches) = 2
    /\ hold_found[2] = Some(Code510300)
    /\ ResultIsTarget

\* C16: get_fund_holdings never raises: when the fetch of the holdings page
\* fails it returns None, and the fund name of a returned triple is not
\* empty: it is the name extracted from the page, else the backup name, else
\* "Fund " followed by the fund code.
C16_NamedTripleOrNoData ==
    hold_pc = "done" =>
        /\ hold_page.kind = "error" => hold_result = None
        /\ hold_result # None =>
              /\ hold_result[1].fund_name # <<>>
              /\ hold_result[1].fund_name =
                    (IF hold_page.title # None /\ hold_page.title[1] # <<>>
                     THEN hold_page.title[1]
                     ELSE IF hold_fund_name # None /\ hold_fund_name[1] # <<>>
                     THEN hold_fund_name[1]
                     ELSE <<"Fund ">> \o hold_fund_code)

\* The page gave no name, the backup gave none either, and holdings were
\* returned under the placeholder name.
C16_Witness ==
    /\ hold_pc = "done"
    /\ hold_page.kind = "content"
    /\ hold_page.title = None
    /\ ~truthy(hold_fund_name)
    /\ hold_result # None
    /\ hold_result[1].fund_name = <<"Fund ">> \o hold_fund_code

\* No search answered a code other than the fund's own.
NoDistinctTarget ==
    \A i \in DOMAIN hold_found :
        hold_found[i] = None \/ hold_found[i][1] = <<>> \/ hold_found[i][1] = hold_fund_code

\* The code and the weight of a table row.
RowCode(row) == IF row.link # None THEN row.link[1].code ELSE row.cell_code

\* hs are rows of the table, in the order of the table.
InTableOrder(hs, rows) ==
    \E f \in [DOMAIN hs -> DOMAIN rows] :
        /\ \A i, j \in DOMAIN hs : i < j => f[i] < f[j]
        /\ \A i \in DOMAIN hs :
              /\ hs[i].code = RowCode(rows[f[i]])
              /\ rows[f[i]].weight_str.kind = "num"
              /\ hs[i].weight = rows[f[i]].weight_str.n

\* C17: when resolution is triggered and finds no distinct target (the
\* search is empty, fails or answers the fund's own code), the holdings
\* extracted from the page are returned unchanged and in table order if
\* there are any, and None is returned if there are none.
C17_UnresolvedKeepsHoldings ==
    (HoldDone /\ ResolutionTriggered /\ NoDistinctTarget) =>
        IF hold_holdings # <<>>
        THEN /\ hold_result # None
             /\ hold_result[1].holdings = hold_holdings
             /\ InTableOrder(hold_result[1].holdings, hold_page.table.rows)
        ELSE hold_result = None

\* Two different rows were parsed, resolution was tried and found nothing,
\* and both rows came back.
C17_Witness ==
    /\ HoldDone
    /\ ResolutionTriggered
    /\ NoDistinctTarget
    /\ hold_result # None
    /\ Len(hold_result[1].holdings) = 2
    /\ hold_result[1].holdings[1].code # hold_result[1].holdings[2].code

\* The last search answered a code other than the fund's own.
ResolutionSucceeded ==
    /\ ResolutionTriggered
    /\ hold_found[Len(hold_found)] # None
    /\ hold_found[Len(hold_found)][1] # <<>>
    /\ hold_found[Len(hold_found)][1] # hold_fund_code

\* C18: when resolution succeeds exactly one holding is returned, whatever
\* was parsed from the page: its weight is 95, its code is the target found
\* and not the fund's own code, and its quote key is sh + code when the code
\* starts with 5 and sz + code otherwise.
C18_SingleTargetHolding ==
    (hold_pc = "done" /\ ResolutionSucceeded) =>
        /\ hold_result # None
        /\ Len(hold_result[1].holdings) = 1
        /\ LET h == hold_result[1].holdings[1]
           IN  /\ h.weight = 95
               /\ Some(h.code) = hold_found[Len(hold_found)]
               /\ h.code # hold_fund_code
               /\ h.fetch_code = Some((IF h.code[1] = "5" THEN <<"s", "h">> ELSE <<"s", "z">>)
                                      \o h.code)

\* Holdings were parsed from the page and the target 510300 replaced them.
C18_Witness ==
    /\ hold_pc = "done"
    /\ ResolutionSucceeded
    /\ hold_holdings # <<>>
    /\ hold_result # None
    /\ Len(hold_result[1].holdings) = 1
    /\ hold_result[1].holdings[1].code = Code510300
    /\ hold_result[1].holdings[1].fetch_code
          = Some(<<"s", "h", "5", "1", "0", "3", "0", "0">>)

HoldIdle ==
    /\ hold_fund_code = <<>>
    /\ hold_page = [kind |-> "error"]
    /\ hold_fund_name = None
    /\ hold_holdings = <<>>
    /\ hold_searches = <<>>
    /\ hold_found = <<>>
    /\ hold_result = None
    /\ hold_pc = "idle"

(***************************************************************************)
(* app.py: process_single_fund and process_funds                           *)
(*                                                                         *)
(* The keys and texts of the result dict are written in Latin letters:      *)
(* code is the key for the fund code, name for the fund name, status for    *)
(* the status text, change for the estimated change and method for the      *)
(* valuation method.                                                        *)
(***************************************************************************)
\* VALUATION_OPTIONS (line 25).
ModeManual == "manual-weighted"

ModeApi == "ttfund-api"

VALUATION_OPTIONS == {ModeManual, ModeApi}

StatusOkApi == "success (ttfund-api)"

StatusOkManual == "success (manual-weighted)"

StatusOkFallback == "success (ttfund-api fallback)"

StatusNoHoldings == "holdings fetch failed"

StatusError == "Error"

Return(v) == [kind |-> "return", value |-> v]

Raise == [kind |-> "raise", value |-> <<>>]

\* get_fund_real_time_estimate_from_1234567, the third-party estimate: its
\* code is not part of the sources.  It answers an estimate or, when the
\* source is unavailable, None; a transport failure is caught inside it.
TtfundData == [fund_name |-> "ttfund name", update_time |-> "ttfund time",
               estimate_change |-> "ttfund estimate"]

get_fund_real_time_estimate_from_1234567 == {None, Some(TtfundData)}

\* What the data sources answer to one worker: ttfund is the estimate source
\* asked in the try block, holdings the value of get_fund_holdings (a triple
\* or None), fault says whether a statement that builds the result from the
\* fetched data raises, fallback is the estimate source asked by the handler.
WorkerAnswers ==
    [ttfund : get_fund_real_time_estimate_from_1234567,
     holdings : {None, Some(<<"fund name", "holdings", "report date">>)},
     fault : BOOLEAN,
     fallback : get_fund_real_time_estimate_from_1234567]

\* Lines 103-145, the try block.
try_block(code, valuation_mode, a) ==
    IF valuation_mode = ModeApi /\ a.ttfund # None
    THEN IF a.fault THEN Raise
         ELSE Return(Some([code |-> code, name |-> a.ttfund[1].fund_name,
                           status |-> StatusOkApi,
                           change |-> Some(a.ttfund[1].estimate_change),
                           method |-> ModeApi]))
    ELSE IF valuation_mode \in VALUATION_OPTIONS
    THEN IF a.holdings = None
         THEN Return(Some([code |-> code, name |-> "--", status |-> StatusNoHoldings,
                           change |-> None, method |-> ModeManual]))
         ELSE IF a.fault THEN Raise
         ELSE Return(Some([code |-> code, name |-> a.holdings[1][1],
                           status |-> StatusOkManual,
                           change |-> Some("estimated_change"),
                           method |-> ModeManual]))
    ELSE Return(None)

\* Lines 147-152, the handler.
except_block(code, a) ==
    IF a.fallback # None
    THEN Return(Some([code |-> code, name |-> a.fallback[1].fund_name,
                      status |-> StatusOkFallback,
                      change |-> Some(a.fallback[1].estimate_change),
                      method |-> "ttfund-api fallback"]))
    ELSE Return(Some([code |-> code, name |-> "Error", status |-> StatusError,
                      change |-> None, method |-> "none"]))

\* Mutant: there is no handler, an exception of the try block leaves the
\* worker.
process_single_fund_noHandler(code, valuation_mode, a) ==
    try_block(code, valuation_mode, a)

\* Lines 102-152.
process_single_fund(code, valuation_mode, a) ==
    IF try_block(code, valuation_mode, a) = Raise
    THEN except_block(code, a)
    ELSE try_block(code, valuation_mode, a)

\* c.strip() of line 157: a code of blanks only is not submitted.
strip_truthy(c) == \E i \in DOMAIN c : c[i] # " "

\* dict.get(c, "manual-weighted") of line 157.
mode_of(modes, c) == IF modes[c] = None THEN ModeManual ELSE modes[c][1]

\* Lines 157: the codes submitted, in the order of code_list.
submitted(code_list) == SelectSeq(code_list, strip_truthy)

(***************************************************************************)
(* Inputs of process_funds                                                 *)
(***************************************************************************)
MaxFunds == 2

FundCodes ==
    {<<"1", "1", "0", "0", "2", "0">>, <<"5", "1", "0", "3", "0", "0">>, <<" ", " ">>}

\* The answers one worker can get: a source it does not ask is None, and
\* fault is FALSE where no result is built from fetched data.
answers_for(valuation_mode) ==
    {a \in WorkerAnswers :
        /\ valuation_mode # ModeApi => a.ttfund = None
        /\ (valuation_mode = ModeApi /\ a.ttfund # None) => a.holdings = None
        /\ (~(valuation_mode = ModeApi /\ a.ttfund # None) /\ a.holdings = None)
              => ~a.fault
        /\ ~a.fault => a.fallback = None}

FundsIdle ==
    /\ f_code_list = <<>>
    /\ f_modes = <<>>
    /\ f_futures_map = <<>>
    /\ f_pending = {}
    /\ f_answers = <<>>
    /\ f_results = <<>>
    /\ f_pc = "idle"

\* A list of distinct codes and the configuration of their modes.
FundsInit ==
    /\ f_code_list \in {l \in SeqsUpTo(FundCodes, MaxFunds) :
                          \A i, j \in DOMAIN l : i # j => l[i] # l[j]}
    /\ f_modes \in [Range(f_code_list) -> {None} \cup {Some(v) : v \in VALUATION_OPTIONS}]
    /\ f_futures_map = <<>>
    /\ f_pending = {}
    /\ f_answers = <<>>
    /\ f_results = <<>>
    /\ f_pc = "start"

\* Lines 156-157: one future per code of code_list that is not blank.
FundsSubmit ==
    /\ f_pc = "start"
    /\ f_futures_map' = submitted(f_code_list)
    /\ f_pending' = DOMAIN submitted(f_code_list)
    /\ f_pc' = "collect"
    /\ UNCHANGED <<f_code_list, f_modes, f_answers, f_results>>
    /\ UNCHANGED <<valVars, histVars, quoteVars, keyVars, holdVars>>

\* Lines 158-162: as_completed yields a future, in any order; its result is
\* appended, and an exception it raised is passed over.
FundsCollect ==
    /\ f_pc = "collect"
    /\ \E future \in f_pending :
       \E a \in answers_for(mode_of(f_modes, f_futures_map[future])) :
          \E out \in {process_single_fund(f_futures_map[future],
                                           mode_of(f_modes, f_futures_map[future]), a)} :
             /\ f_results' = IF out.kind = "return"
                             THEN Append(f_results, out.value)
                             ELSE f_results
             /\ f_answers' = dict_set(f_answers, future, a)
             /\ f_pending' = f_pending \ {future}
    /\ UNCHANGED <<f_code_list, f_modes, f_futures_map, f_pc>>
    /\ UNCHANGED <<valVars, histVars, quoteVars, keyVars, holdVars>>

\* Line 163.
FundsReturn ==
    /\ f_pc = "collect"
    /\ f_pending = {}
    /\ f_pc' = "done"
    /\ UNCHANGED <<f_code_list, f_modes, f_futures_map, f_pending, f_answers, f_results>>
    /\ UNCHANGED <<valVars, histVars, quoteVars, keyVars, holdVars>>

FundsNext == FundsSubmit \/ FundsCollect \/ FundsReturn

(***************************************************************************)
(* Claims about process_funds                                              *)
(***************************************************************************)
\* The codes of code_list that are not blank.
SubmittedCodes == {c \in Range(f_code_list) : \E i \in DOMAIN c : c[i] # " "}

\* The positions of results that carry code c.
ResultsFor(c) == {i \in DOMAIN f_results : f_results[i] # None /\ f_results[i][1].code = c}

\* The worker got no holdings where it needed them, or an exception and then
\* no estimate from the fallback source either.
PipelineFailed(valuation_mode, a) ==
    LET needs_holdings == valuation_mode # ModeApi \/ a.ttfund = None
    IN  \/ needs_holdings /\ a.holdings = None
        \/ a.fault /\ a.fallback = None

\* C15: whatever fails for a fund, the fallback source included, and in
\* whatever order the workers complete, process_funds returns exactly one
\* result per submitted fund code and each result carries its fund code; a
\* fund whose pipeline fails gets a failure-status result for its code, and
\* the result of a fund is the one its own code, mode and answers give,
\* whatever happens to the others.
C15_OneResultPerFund ==
    f_pc = "done" =>
        /\ Len(f_results) = Cardinality(SubmittedCodes)
        /\ \A i \in DOMAIN f_results :
              f_results[i] # None /\ f_results[i][1].code \in SubmittedCodes
        /\ \A c \in SubmittedCodes : Cardinality(ResultsFor(c)) = 1
        /\ \A future \in DOMAIN f_futures_map :
              LET c == f_futures_map[future]
              IN  \A i \in ResultsFor(c) :
                     /\ PipelineFailed(mode_of(f_modes, c), f_answers[future])
                           => /\ f_results[i][1].status \in {StatusNoHoldings, StatusError}
                              /\ f_results[i][1].change = None
                     /\ Return(f_results[i])
                           = process_single_fund(c, mode_of(f_modes, c), f_answers[future])

\* Two funds: the one submitted first raised and its fallback source gave
\* nothing, the other succeeded and completed first.
C15_Witness ==
    /\ f_pc = "done"
    /\ Len(f_futures_map) = 2
    /\ f_answers[1].fault /\ f_answers[1].fallback = None
    /\ Len(f_results) = 2
    /\ f_results[1][1].code = f_futures_map[2]
    /\ f_results[1][1].status = StatusOkManual
    /\ f_results[2][1].code = f_futures_map[1]
    /\ f_results[2][1].status = StatusError

(***************************************************************************)
(* Specifications                                                          *)
(***************************************************************************)
InitVal == ValInit /\ HistIdle /\ QuoteIdle /\ KeyIdle /\ HoldIdle /\ FundsIdle

SpecVal == InitVal /\ [][ValNext]_vars

InitFloat == FloatInit /\ HistIdle /\ QuoteIdle /\ KeyIdle /\ HoldIdle /\ FundsIdle

SpecFloat == InitFloat /\ [][ValNext]_vars

InitHist == HistInit /\ ValIdle /\ QuoteIdle /\ KeyIdle /\ HoldIdle /\ FundsIdle

SpecHist == InitHist /\ [][HistNext]_vars

InitQuote == QuoteInit /\ ValIdle /\ HistIdle /\ KeyIdle /\ HoldIdle /\ FundsIdle

SpecQuote == InitQuote /\ [][QuoteNext]_vars

InitBulk == BulkInit /\ ValIdle /\ HistIdle /\ KeyIdle /\ HoldIdle /\ FundsIdle

SpecBulk == InitBulk /\ [][QuoteNext]_vars

InitKey == KeyInit /\ ValIdle /\ HistIdle /\ QuoteIdle /\ HoldIdle /\ FundsIdle

SpecKey == InitKey /\ [][KeyNext]_vars

InitHold == HoldInit /\ ValIdle /\ HistIdle /\ QuoteIdle /\ KeyIdle /\ FundsIdle

SpecHold == InitHold /\ [][HoldNext]_vars

InitFunds == FundsInit /\ ValIdle /\ HistIdle /\ QuoteIdle /\ KeyIdle /\ HoldIdle

SpecFunds == InitFunds /\ [][FundsNext]_vars
====
